---- MODULE Spec2Model ----
(***************************************************************************)
(* A model of obsidian_to_html.py: the markup rewriter                     *)
(* (modify_content_with_regex and its helpers), the video embed resolver   *)
(* (get_youtube_embed_code), the front-matter exclusion check              *)
(* (should_exclude_file) and the directory driver (process_directory,      *)
(* modify_and_convert_file).                                               *)
(*                                                                         *)
(* Text is a sequence of atoms.  An atom is one character (!, [, a          *)
(* backtick, a newline) or a literal that the patterns can only match     *)
(* whole (https://, www.youtube.com, .html).  Every regular                *)
(* expression of the program is modelled by a scanner over atoms that      *)
(* follows Python's leftmost, non-overlapping, lazy matching.              *)
(***************************************************************************)
EXTENDS Integers, Sequences, FiniteSets, TLC

VARIABLES
    content,               \* the text handed to modify_content_with_regex
    stages,                \* per part of the split: the text after each rule
    modified_content,      \* the value modify_content_with_regex returns
    youtube_placeholders,  \* the reference table, in insertion order
    url,                   \* the URL handed to get_youtube_embed_code
    embed_code,            \* the value get_youtube_embed_code returns
    rendered,              \* the HTML file as the renderer wrote it
    output_html,           \* the HTML file at output_html_path as it is now
    exclude_frontmatter_properties,  \* the configured exclusion keys
    excluded_folders,      \* excluded_folders as the configuration file gives it
    excluded_dirs,         \* the global set of excluded folder names
    platform,              \* platform.system()
    vault,                 \* the files under source_base, in walk order
    files_to_process,      \* the documents process_directory collected
    cursor,                \* the number of calls of modify_and_convert_file that returned
    errors,                \* the entries of errors.txt
    journal,               \* what each call of modify_and_convert_file did
    rewrites,              \* what each call of modify_content_with_regex returned
    pc                     \* position of the program

rewriteVars == <<content, stages, modified_content, youtube_placeholders>>

resolverVars == <<url, embed_code>>

postVars == <<rendered, output_html>>

configVars == <<exclude_frontmatter_properties, excluded_folders, excluded_dirs, platform, vault>>

runVars == <<files_to_process, cursor, errors, journal, rewrites>>

vars == <<rewriteVars, resolverVars, postVars, configVars, runVars, pc>>

----------------------------------------------------------------------------
(* Bounds of the model *)

MaxPieces == 4

MaxQueryAtoms == 4

MaxRefs == 2

MaxHtmlPieces == 2

MaxFrontLines == 1

MaxDocs == 2

----------------------------------------------------------------------------
(* Generic helpers over atom sequences *)

RECURSIVE Flatten(_)
Flatten(ss) ==
    IF ss = <<>> THEN <<>> ELSE Head(ss) \o Flatten(Tail(ss))

\* s[from..Len(s)]
From(s, from) == SubSeq(s, from, Len(s))

\* lit occurs in t at position p
IsAt(t, p, lit) ==
    /\ p >= 1
    /\ p + Len(lit) - 1 <= Len(t)
    /\ \A k \in 1..Len(lit) : t[p + k - 1] = lit[k]

\* least q >= p with t[q] = a, 0 when there is none
RECURSIVE IndexOf(_, _, _)
IndexOf(t, a, p) ==
    IF p > Len(t) THEN 0
    ELSE IF t[p] = a THEN p
    ELSE IndexOf(t, a, p + 1)

IsDigit(a) == a \in {"0", "1", "2", "3", "4", "5", "6", "7", "8", "9"}

IsScheme(a) == a \in {"http://", "https://"}

----------------------------------------------------------------------------
(* re.split on the fenced-block pattern (three backticks, lazy body, three *)
(* backticks, DOTALL), the delimiter captured                              *)

\* the grave accent character, which a TLA+ string cannot hold
Backtick == "BACKTICK"

Fence == <<Backtick, Backtick, Backtick>>

FenceAt(t, p) == IsAt(t, p, Fence)

\* least q >= p where a fence starts, 0 when there is none
RECURSIVE NextFence(_, _)
NextFence(t, p) ==
    IF p + 2 > Len(t) THEN 0
    ELSE IF FenceAt(t, p) THEN p
    ELSE NextFence(t, p + 1)

\* the parts of t[from..]: prose, code, prose, ..., prose
RECURSIVE SplitFrom(_, _)
SplitFrom(t, from) ==
    LET o == NextFence(t, from)
        c == IF o = 0 THEN 0 ELSE NextFence(t, o + 3)
    IN  IF c = 0 THEN << From(t, from) >>
        ELSE << SubSeq(t, from, o - 1), SubSeq(t, o, c + 2) >>
             \o SplitFrom(t, c + 3)

SplitCode(t) == SplitFrom(t, 1)

\* parts[i].startswith of three backticks
StartsWithFence(part) == FenceAt(part, 1)

----------------------------------------------------------------------------
\* The lazy, single-line body of pattern_media, pattern_wiki and
\* pattern_highlight: the least q >= p with the closing pair at q and no
\* newline in t[p..q-1], 0 when there is none.

RECURSIVE CloseAt(_, _, _)
CloseAt(t, close, p) ==
    IF p + 1 > Len(t) THEN 0
    ELSE IF t[p] = close /\ t[p + 1] = close THEN p
    ELSE IF t[p] = "\n" THEN 0
    ELSE CloseAt(t, close, p + 1)

----------------------------------------------------------------------------
(* cleanup_image_link *)

\* re.search for a pipe followed by digits up to the end of inner_text:
\* the position of the pipe, 0 for no match
RECURSIVE WidthPipeFrom(_, _)
WidthPipeFrom(inner, p) ==
    IF p >= Len(inner) THEN 0
    ELSE IF inner[p] = "|" /\ \A k \in (p + 1)..Len(inner) : IsDigit(inner[k])
         THEN p
    ELSE WidthPipeFrom(inner, p + 1)

\* a variant that takes any suffix after the first pipe for a width
WidthPipeAnySuffix(inner) ==
    LET p == IndexOf(inner, "|", 1)
    IN  IF p = 0 \/ p = Len(inner) THEN 0 ELSE p

WidthPipe(inner) == WidthPipeFrom(inner, 1)

cleanup_image_link(inner_text) ==
    LET w == WidthPipe(inner_text)
        cleaned_text == IF w = 0 THEN inner_text ELSE SubSeq(inner_text, 1, w - 1)
    IN  IF w # 0
        THEN <<"!", "[", "]", "(">> \o cleaned_text \o <<")", "{ width=">>
             \o From(inner_text, w + 1) \o <<"px }">>
        ELSE <<"!", "[", "]", "(">> \o cleaned_text \o <<")">>

----------------------------------------------------------------------------
(* cleanup_wiki_link *)

\* a variant that splits at the first pipe even when nothing follows it
TitlePipeEmptyTitle(inner) == IndexOf(inner, "|", 1)

\* re.search for a pipe followed by one or more characters up to the end of
\* inner_text: the leftmost pipe that has a character after it, 0 for no match
TitlePipe(inner) ==
    LET p == IndexOf(inner, "|", 1)
    IN  IF p = 0 \/ p = Len(inner) THEN 0 ELSE p

cleanup_wiki_link(inner_text) ==
    LET p == TitlePipe(inner_text)
        cleaned_text == IF p = 0 THEN inner_text ELSE SubSeq(inner_text, 1, p - 1)
        title == IF p # 0 THEN From(inner_text, p + 1) ELSE cleaned_text
    IN  <<"[">> \o title \o <<"]", "(">> \o cleaned_text \o <<".html", ")">>

----------------------------------------------------------------------------
\* pattern_youtube: "![", an alt text free of "]", "](", then the URL group:
\* a scheme (http:// or https://) followed by either
\*   www.youtube.com/watch?v= and one or more atoms other than ")", or
\*   a second scheme, youtu.be/ and one or more atoms other than ")",
\* then ")"

WatchPrefix == <<"www.youtube.com", "/watch", "?", "v", "=">>

ShortPrefix == <<"youtu.be", "/">>

\* the second alternative of the group repeats https?:// before youtu\.be
YoutubeShortAlt(t, u) ==
    /\ u + 1 <= Len(t)
    /\ IsScheme(t[u + 1])
    /\ IsAt(t, u + 2, ShortPrefix)

\* position of the first atom of [^)]+ when the URL that starts at u (its
\* scheme) has one of the two alternatives, 0 otherwise
YoutubeIdStart(t, u) ==
    IF u > Len(t) \/ ~IsScheme(t[u]) THEN 0
    ELSE IF IsAt(t, u + 1, WatchPrefix) THEN u + 1 + Len(WatchPrefix)
    ELSE IF YoutubeShortAlt(t, u) THEN u + 2 + Len(ShortPrefix)
    ELSE 0

\* a match of pattern_youtube at p: [a |-> "]" of the alt text,
\* e |-> the closing ")"], e = 0 for no match
YoutubeMatch(t, p) ==
    LET a == IF IsAt(t, p, <<"!", "[">>) THEN IndexOf(t, "]", p + 2) ELSE 0
        i == IF a # 0 /\ IsAt(t, a + 1, <<"(">>) THEN YoutubeIdStart(t, a + 2) ELSE 0
        e == IF i # 0 /\ i <= Len(t) /\ t[i] # ")" THEN IndexOf(t, ")", i + 1) ELSE 0
    IN  [a |-> a, e |-> e]

Placeholder(n) == "YOUTUBEPLACEHOLDER_" \o ToString(n)

\* re.sub(pattern_youtube, replace_youtube, part) with the counter at n:
\* [text, refs (the references recorded, in match order)]
RECURSIVE YoutubeSub(_, _, _)
YoutubeSub(t, p, n) ==
    IF p > Len(t) THEN [text |-> <<>>, refs |-> <<>>]
    ELSE LET m == YoutubeMatch(t, p)
         IN  IF m.e # 0
             THEN LET alt_text == SubSeq(t, p + 2, m.a - 1)
                      group2 == SubSeq(t, m.a + 2, m.e - 1)
                      rest == YoutubeSub(t, m.e + 1, n + 1)
                  IN  [text |-> <<"[", Placeholder(n), "]", "(">> \o group2 \o <<")">>
                                \o rest.text,
                       refs |-> << [placeholder |-> Placeholder(n),
                                    url |-> group2, alt |-> alt_text] >>
                                \o rest.refs]
             ELSE LET rest == YoutubeSub(t, p + 1, n)
                  IN  [text |-> << t[p] >> \o rest.text, refs |-> rest.refs]

----------------------------------------------------------------------------
(* re.sub(pattern_media, cleanup_image_link, part) *)

MediaClose(t, p) ==
    IF IsAt(t, p, <<"!", "[", "[">>) THEN CloseAt(t, "]", p + 3) ELSE 0

RECURSIVE MediaSub(_, _)
MediaSub(t, p) ==
    IF p > Len(t) THEN <<>>
    ELSE LET q == MediaClose(t, p)
         IN  IF q # 0
             THEN cleanup_image_link(SubSeq(t, p + 3, q - 1)) \o MediaSub(t, q + 2)
             ELSE << t[p] >> \o MediaSub(t, p + 1)

(* re.sub(pattern_wiki, cleanup_wiki_link, part) *)

WikiClose(t, p) ==
    IF IsAt(t, p, <<"[", "[">>) THEN CloseAt(t, "]", p + 2) ELSE 0

RECURSIVE WikiSub(_, _)
WikiSub(t, p) ==
    IF p > Len(t) THEN <<>>
    ELSE LET q == WikiClose(t, p)
         IN  IF q # 0
             THEN cleanup_wiki_link(SubSeq(t, p + 2, q - 1)) \o WikiSub(t, q + 2)
             ELSE << t[p] >> \o WikiSub(t, p + 1)

(* re.sub(pattern_highlight, span with group 1, part) *)

HighlightClose(t, p) ==
    IF IsAt(t, p, <<"=", "=">>) THEN CloseAt(t, "=", p + 2) ELSE 0

RECURSIVE HighlightSub(_, _)
HighlightSub(t, p) ==
    IF p > Len(t) THEN <<>>
    ELSE LET q == HighlightClose(t, p)
         IN  IF q # 0
             THEN <<"<span class=\"highlight\">">> \o SubSeq(t, p + 2, q - 1)
                  \o <<"</span>">> \o HighlightSub(t, q + 2)
             ELSE << t[p] >> \o HighlightSub(t, p + 1)

----------------------------------------------------------------------------
(* modify_content_with_regex: the loop over the parts *)

\* a variant of the iteration without the startswith test
ProcessEveryPart(part, n) ==
    LET y == YoutubeSub(part, 1, n)
        m == MediaSub(y.text, 1)
        w == WikiSub(m, 1)
        h == HighlightSub(w, 1)
    IN  [src |-> part, rewritten |-> TRUE, yt |-> y.text, media |-> m,
         wiki |-> w, out |-> h, refs |-> y.refs]

\* one iteration of the loop on parts[i], the counter at n
ProcessPart(part, n) ==
    IF StartsWithFence(part)
    THEN [src |-> part, rewritten |-> FALSE, yt |-> part, media |-> part,
          wiki |-> part, out |-> part, refs |-> <<>>]
    ELSE LET y == YoutubeSub(part, 1, n)
             m == MediaSub(y.text, 1)
             w == WikiSub(m, 1)
             h == HighlightSub(w, 1)
         IN  [src |-> part, rewritten |-> TRUE, yt |-> y.text, media |-> m,
              wiki |-> w, out |-> h, refs |-> y.refs]

\* the iterations i..Len(parts), yt_index at n
RECURSIVE ProcessParts(_, _, _)
RECURSIVE ProcessPartsCounterPerPart(_, _, _)
\* a variant whose counter restarts in every iteration
ProcessPartsCounterPerPart(parts, i, n) ==
    IF i > Len(parts) THEN <<>>
    ELSE << ProcessPart(parts[i], 0) >> \o ProcessPartsCounterPerPart(parts, i + 1, 0)

ProcessParts(parts, i, n) ==
    IF i > Len(parts) THEN <<>>
    ELSE LET r == ProcessPart(parts[i], n)
         IN  << r >> \o ProcessParts(parts, i + 1, n + Len(r.refs))

\* the loop started at the count the table of the call before was left with
RewriteStagesCounterKept(text) ==
    ProcessParts(SplitCode(text), 1, Len(youtube_placeholders))

\* the loop of modify_content_with_regex, yt_index = 0
RewriteStages(text) == ProcessParts(SplitCode(text), 1, 0)

\* ''.join(parts)
JoinParts(st) == Flatten([i \in 1..Len(st) |-> st[i].out])

\* youtube_placeholders[placeholder] = {...} for every match, on table
\* `table`: a dict keeps the position of a key that is assigned again
RECURSIVE DictPut(_, _)
DictPut(table, r) ==
    IF table = <<>> THEN << r >>
    ELSE IF Head(table).placeholder = r.placeholder THEN << r >> \o Tail(table)
    ELSE << Head(table) >> \o DictPut(Tail(table), r)

RECURSIVE DictPutAll(_, _)
DictPutAll(table, rs) ==
    IF rs = <<>> THEN table
    ELSE DictPutAll(DictPut(table, Head(rs)), Tail(rs))

RecordedRefs(st) == Flatten([i \in 1..Len(st) |-> st[i].refs])

----------------------------------------------------------------------------
(* get_youtube_embed_code.  A URL is a sequence of atoms: a scheme atom,   *)
(* host atoms, path atoms ("/", "/watch", id atoms), "?" and the atoms of  *)
(* the query ("v", "=", "&", id atoms).  The atoms hold no "#", "%", "+"   *)
(* or ";", so fragments and decoding do not arise.                         *)

\* the absent result; embed markup is never empty
None == <<>>

\* an atom at which the netloc ends: it begins with "/" or "?", or it is a
\* second scheme, whose "//" ends the netloc after its "https:"
EndsNetloc(a) == a \in {"/", "/watch", "?"} \/ IsScheme(a)

\* the number of whole atoms of the netloc that begins at p
RECURSIVE NetlocLen(_, _)
NetlocLen(u, p) ==
    IF p > Len(u) \/ EndsNetloc(u[p]) THEN 0 ELSE 1 + NetlocLen(u, p + 1)

\* urllib.parse.urlparse(url): netloc, path and query.  Without a scheme
\* atom the text has no "//", and all of it is path and query.
UrlParse(u) ==
    LET hasNetloc == Len(u) >= 1 /\ IsScheme(u[1])
        n == IF hasNetloc THEN NetlocLen(u, 2) ELSE 0
        e == IF hasNetloc THEN 2 + n ELSE 1     \* first atom after the netloc
        inner == hasNetloc /\ e <= Len(u) /\ IsScheme(u[e])
        rest == IF inner THEN <<"//">> \o From(u, e + 1) ELSE From(u, e)
        q == IndexOf(rest, "?", 1)
    IN  [netloc |-> IF hasNetloc
                    THEN SubSeq(u, 2, e - 1)
                         \o (IF inner THEN << IF u[e] = "https://" THEN "https:" ELSE "http:" >>
                             ELSE <<>>)
                    ELSE <<>>,
         path |-> IF q = 0 THEN rest ELSE SubSeq(rest, 1, q - 1),
         query |-> IF q = 0 THEN <<>> ELSE From(rest, q + 1)]

\* 'youtube.com' in netloc, 'youtu.be' in netloc: a substring test
HasYoutubeCom(netloc) ==
    \E k \in 1..Len(netloc) : netloc[k] \in {"www.youtube.com", "notyoutube.com"}

HasYoutuBe(netloc) == \E k \in 1..Len(netloc) : netloc[k] = "youtu.be"

\* urllib.parse.parse_qs(query).get('v', [None])[0]: the value of the first
\* field named v whose value is not blank; None when there is none
RECURSIVE QueryV(_)
QueryV(query) ==
    IF query = <<>> THEN None
    ELSE LET a == IndexOf(query, "&", 1)
             field == IF a = 0 THEN query ELSE SubSeq(query, 1, a - 1)
             more == IF a = 0 THEN <<>> ELSE From(query, a + 1)
             eq == IndexOf(field, "=", 1)
         IN  IF eq = 2 /\ field[1] = "v" /\ Len(field) > 2
             THEN From(field, 3)
             ELSE QueryV(more)

\* path.lstrip('/')
RECURSIVE LStripSlash(_)
LStripSlash(path) ==
    IF path = <<>> THEN <<>>
    ELSE IF Head(path) \in {"/", "//"} THEN LStripSlash(Tail(path))
    ELSE IF Head(path) = "/watch" THEN <<"watch">> \o Tail(path)
    ELSE path

EmbedMarkup(video_id) ==
    <<"<iframe width=\"560\" height=\"315\" src=\"https://www.youtube.com/embed/">>
    \o video_id \o <<"\" frameborder=\"0\" allowfullscreen></iframe>">>

get_youtube_embed_code(u) ==
    LET parsed_url == UrlParse(u)
        video_id == IF HasYoutubeCom(parsed_url.netloc) THEN QueryV(parsed_url.query)
                    ELSE IF HasYoutuBe(parsed_url.netloc) THEN LStripSlash(parsed_url.path)
                    ELSE None
    IN  IF video_id # <<>> THEN EmbedMarkup(video_id) ELSE None

\* The URLs the resolver is tried on
UrlSchemes == { <<>>, <<"https://">>, <<"https://", "https://">> }

UrlHosts == { "www.youtube.com", "notyoutube.com", "youtu.be", "example.com" }

UrlPaths == { <<>>, <<"/">>, <<"/watch">>, <<"/", "x">>, <<"/", "x", "/", "x">> }

UrlQueries ==
    { <<>> } \cup
    { <<"?">> \o q :
        q \in UNION { [1..n -> {"v", "=", "&", "x"}] : n \in 0..MaxQueryAtoms } }

Urls ==
    { sc \o <<h>> \o pa \o qu :
        sc \in UrlSchemes, h \in UrlHosts, pa \in UrlPaths, qu \in UrlQueries }

----------------------------------------------------------------------------
(* Post-processing of the rendered HTML in modify_and_convert_file.  The   *)
(* HTML is a sequence of atoms; an anchor is "<a", whitespace atoms,       *)
(* "href=" with its opening quote, the atoms of the URL, the closing quote *)
(* with ">", the placeholder and "</a>".                                   *)

Backslash == "\\"

IsSpace(a) == a \in {" ", "\n"}

\* the number of whitespace atoms at p
RECURSIVE SpaceLen(_, _)
SpaceLen(t, p) ==
    IF p <= Len(t) /\ IsSpace(t[p]) THEN 1 + SpaceLen(t, p + 1) ELSE 0

\* the index at which a match of the anchor pattern built from u and
\* placeholder, begun at p, ends; 0 when there is no match at p
AnchorEnd(t, p, u, placeholder) ==
    LET w == SpaceLen(t, p + 1)
        tail == <<"href=\"">> \o u \o <<"\">", placeholder, "</a>">>
    IN  IF /\ p <= Len(t) /\ t[p] = "<a"
           /\ w >= 1
           /\ IsAt(t, p + 1 + w, tail)
        THEN p + w + Len(tail)
        ELSE 0

\* the class of an atom that follows a backslash in a replacement template;
\* the digit atoms in use are group numbers, none is 0
IsLetter(a) == a \in {"a", "x", "v"}

\* the replacement template repl is well formed from i on: no backslash
\* is followed by a letter that names no escape, by a group number (the
\* pattern has no groups) or by the end of the template
RECURSIVE TemplateOk(_, _)
TemplateOk(repl, i) ==
    IF i > Len(repl) THEN TRUE
    ELSE IF repl[i] # Backslash THEN TemplateOk(repl, i + 1)
    ELSE IF i = Len(repl) THEN FALSE
    ELSE IF repl[i + 1] = Backslash THEN TemplateOk(repl, i + 2)
    ELSE IF IsLetter(repl[i + 1]) \/ IsDigit(repl[i + 1]) THEN FALSE
    ELSE TemplateOk(repl, i + 1)

\* what a well formed template expands to: an escaped backslash is one
\* backslash, any other escape stays as written
RECURSIVE ExpandTemplate(_, _)
ExpandTemplate(repl, i) ==
    IF i > Len(repl) THEN <<>>
    ELSE IF repl[i] = Backslash /\ i < Len(repl) /\ repl[i + 1] = Backslash
    THEN << Backslash >> \o ExpandTemplate(repl, i + 2)
    ELSE << repl[i] >> \o ExpandTemplate(repl, i + 1)

\* re.sub(pattern, embed_code, html_content) for a well formed template
RECURSIVE AnchorSub(_, _, _, _, _)
AnchorSub(t, p, u, placeholder, expansion) ==
    IF p > Len(t) THEN <<>>
    ELSE LET e == AnchorEnd(t, p, u, placeholder)
         IN  IF e # 0
             THEN expansion \o AnchorSub(t, e + 1, u, placeholder, expansion)
             ELSE << t[p] >> \o AnchorSub(t, p + 1, u, placeholder, expansion)

\* the loop over youtube_placeholders.items() from entry i on:
\* [ok (no exception was raised), text (html_content at the end)]
RECURSIVE SubstituteFrom(_, _, _)
SubstituteFrom(html_content, table, i) ==
    IF i > Len(table) THEN [ok |-> TRUE, text |-> html_content]
    ELSE LET code == get_youtube_embed_code(table[i].url)
         IN  IF code = None THEN SubstituteFrom(html_content, table, i + 1)
             ELSE IF ~TemplateOk(code, 1) THEN [ok |-> FALSE, text |-> html_content]
             ELSE SubstituteFrom(AnchorSub(html_content, 1, table[i].url,
                                           table[i].placeholder,
                                           ExpandTemplate(code, 1)),
                                 table, i + 1)

\* the content of the output file after the post-processing step: the file
\* is written back only when the loop ended without an exception
PostProcessed(file, table) ==
    IF table = <<>> THEN file
    ELSE LET r == SubstituteFrom(file, table, 1)
         IN  IF r.ok THEN r.text ELSE file

\* The reference tables and rendered files post-processing is tried on.
\* The URLs are ones pattern_youtube extracts.
IdTails == { <<"x">>, << Backslash >>, << Backslash, Backslash >>, << Backslash, "4" >> }

PostUrls ==
    { <<"https://">> \o WatchPrefix \o id : id \in IdTails }
    \cup { <<"https://">> \o WatchPrefix \o <<"&">>,
           <<"https://", "https://", "youtu.be", "/", "x">> }

Tables ==
    UNION { { [i \in 1..n |-> [placeholder |-> Placeholder(i - 1), url |-> us[i],
                               alt |-> <<"a">>]] : us \in [1..n -> PostUrls] }
            : n \in 0..MaxRefs }

Anchor(space, u, placeholder) ==
    <<"<a">> \o space \o <<"href=\"">> \o u \o <<"\">", placeholder, "</a>">>

\* a piece of rendered HTML for a table: text, the anchor of a reference
\* (with one or two whitespace atoms), or an anchor that pairs the URL of
\* one reference with the placeholder of another
HtmlPieces(table) ==
    { <<"x">> }
    \cup { Anchor(<<" ">>, table[i].url, table[j].placeholder) :
             i \in 1..Len(table), j \in 1..Len(table) }
    \cup { Anchor(<<"\n", " ">>, table[i].url, table[i].placeholder) :
             i \in 1..Len(table) }

HtmlsOf(table) ==
    { Flatten(ps) :
        ps \in UNION { [1..n -> HtmlPieces(table)] : n \in 0..MaxHtmlPieces } }

----------------------------------------------------------------------------
(* should_exclude_file.  A document with front-matter is a sequence of     *)
(* the atoms "---", newline, space, ":", key atoms and value atoms; a key  *)
(* that contains another key is written as two atoms ("not", "private").   *)

Min(S) == CHOOSE x \in S : \A y \in S : x <= y

Max(S) == CHOOSE x \in S : \A y \in S : y <= x

\* re.IGNORECASE on the atoms in use
Lower(a) == IF a = "TRUE" THEN "true" ELSE a

\* the alternatives true, yes, y, on, 1
IsTruthy(a) == Lower(a) \in {"true", "yes", "y", "on", "1"}

\* the positions at which the opening line can end: the newline the
\* pattern requires after the dashes and a run of whitespace
OpenEnds(t) ==
    IF Len(t) >= 1 /\ t[1] = "---"
    THEN { o \in 2..Len(t) : t[o] = "\n" /\ \A k \in 2..(o - 1) : IsSpace(t[k]) }
    ELSE {}

\* a closing line follows the group that ends at g: a newline, the dashes,
\* a run of whitespace and a newline
ClosesAt(t, g) ==
    /\ g + 2 <= Len(t)
    /\ t[g + 1] = "\n"
    /\ t[g + 2] = "---"
    /\ \E e \in (g + 3)..Len(t) :
          t[e] = "\n" /\ \A k \in (g + 3)..(e - 1) : IsSpace(t[k])

\* the ends of the groups that can follow an opening line ending at o
GroupEnds(t, o) == { g \in o..Len(t) : ClosesAt(t, g) }

\* re.match of the front-matter pattern: [found, group1].  The whitespace
\* of the opening line is greedy and the group is lazy.
FrontmatterMatch(t) ==
    LET opens == { o \in OpenEnds(t) : GroupEnds(t, o) # {} }
    IN  IF opens = {} THEN [found |-> FALSE, group1 |-> <<>>]
        ELSE LET o == Max(opens)
             IN  [found |-> TRUE, group1 |-> SubSeq(t, o + 1, Min(GroupEnds(t, o)))]

\* re.search of the pattern built from prop in frontmatter_content
PropertySearch(fm, prop) ==
    \E i \in 1..Len(fm) :
        /\ Lower(fm[i]) = Lower(prop)
        /\ LET c == i + 1 + SpaceLen(fm, i + 1)
               v == c + 1 + SpaceLen(fm, c + 1)
               w == SpaceLen(fm, v + 1)
           IN  /\ c <= Len(fm) /\ fm[c] = ":"
               /\ v <= Len(fm) /\ IsTruthy(fm[v])
               /\ \/ v + w = Len(fm)
                  \/ \E k \in (v + 1)..(v + w) : fm[k] = "\n"

should_exclude_file(t, props) ==
    IF props = {} THEN FALSE
    ELSE LET frontmatter_match == FrontmatterMatch(t)
         IN  IF ~frontmatter_match.found THEN FALSE
             ELSE \E prop \in props : PropertySearch(frontmatter_match.group1, prop)

\* The documents the front-matter check is tried on: an opening, up to
\* MaxFrontLines lines of the form key, separator, value, a closing and a body
FrontOpenings == { <<>>, <<"---", "\n">>, <<"---", " ", "\n">> }

FrontKeys == { <<"private">>, <<"not", "private">>, <<"draft">> }

FrontSeparators == { <<":">>, <<":", " ">> }

FrontValues == { <<"true">>, <<"TRUE">>, <<"false">>, <<"true", "x">> }

FrontLines ==
    { k \o sep \o v : k \in FrontKeys, sep \in FrontSeparators, v \in FrontValues }

RECURSIVE JoinLines(_)
JoinLines(ls) ==
    IF ls = <<>> THEN <<>>
    ELSE IF Len(ls) = 1 THEN ls[1]
    ELSE ls[1] \o <<"\n">> \o JoinLines(Tail(ls))

FrontClosings == { <<>>, <<"\n", "---", "\n">>, <<"\n", "---">>, <<"\n", "---", " ", "\n">> }

FrontBodies == { <<>>, <<"private", ":", "true">> }

FrontDocs ==
    { op \o JoinLines(ls) \o cl \o body :
        op \in FrontOpenings,
        ls \in UNION { [1..n -> FrontLines] : n \in 0..MaxFrontLines },
        cl \in FrontClosings, body \in FrontBodies }

PropertySets == { {}, {"private"} }

----------------------------------------------------------------------------
(* process_directory and modify_and_convert_file.  A file of the vault is  *)
(* [dir (the folder names from source_base down), md (the name ends in     *)
(* .md), content]; a document is named by its position in the vault.       *)

DefaultExcludedFolders == {"_excalidraw", "_resources", "_templates", ".obsidian", ".trash"}

\* os.walk prunes a folder whose name is excluded, and all below it
Walked(file, excluded) == \A k \in 1..Len(file.dir) : file.dir[k] \notin excluded

\* the .md files of the folders walked, from position i on
RECURSIVE CollectFrom(_, _, _)
CollectFrom(files, i, excluded) ==
    IF i > Len(files) THEN <<>>
    ELSE (IF files[i].md /\ Walked(files[i], excluded) THEN << i >> ELSE <<>>)
         \o CollectFrom(files, i + 1, excluded)

\* what the renderer makes of the rewritten text, as far as post-processing
\* relies on it: the link of a reference becomes its anchor
RECURSIVE PandocHtml(_, _, _)
PandocHtml(t, p, table) ==
    IF p > Len(t) THEN <<>>
    ELSE LET link(i) == <<"[", table[i].placeholder, "]", "(">> \o table[i].url \o <<")">>
             hits == { i \in 1..Len(table) : IsAt(t, p, link(i)) }
         IN  IF hits # {}
             THEN LET i == Min(hits)
                  IN  <<"<a", " ", "href=\"">> \o table[i].url
                      \o <<"\">", table[i].placeholder, "</a>">>
                      \o PandocHtml(t, p + Len(link(i)), table)
             ELSE << t[p] >> \o PandocHtml(t, p + 1, table)

\* how the invocation of the renderer can end: exit status 0, another exit
\* status, or FileNotFoundError
RendererOutcomes == {"ok", "nonzero", "missing"}

\* the handler of the outcome ends the run with sys.exit(1)
ExitsRunOnAnyFailure(outcome) == outcome # "ok"

ExitsRun(outcome) == outcome = "missing"

\* how the step that sets the creation date of the output can end
TimestampOutcomes(system, written) ==
    IF system = "Darwin"
    THEN (IF written THEN {"set"} ELSE {}) \cup {"failed", "no SetFile"}
    ELSE IF system = "Windows"
    THEN (IF written THEN {"set"} ELSE {}) \cup {"failed"}
    ELSE {"unsupported"}

\* only CalledProcessError is caught around the SetFile command
TimestampRaises(outcome) == outcome = "no SetFile"

Entry(d, skipped, outcome, written, posted, timestamp) ==
    [file |-> d, skipped |-> skipped, rewritten |-> ~skipped, renderer |-> outcome,
     written |-> written, posted |-> posted, timestamp |-> timestamp]

----------------------------------------------------------------------------
(* Input texts: up to MaxPieces pieces *)

WatchEmbed ==
    <<"!", "[", "v", "]", "(", "https://", "www.youtube.com", "/watch", "?",
      "v", "=", "x", ")">>

ShortEmbed ==
    <<"!", "[", "v", "]", "(", "https://", "youtu.be", "/", "x", ")">>

DoubleSchemeEmbed ==
    <<"!", "[", "v", "]", "(", "https://", "https://", "youtu.be", "/", "x", ")">>

OtherEmbed ==
    <<"!", "[", "v", "]", "(", "https://", "example.com", "/", "x", ")">>

\* the link and highlight markup around code fences
LinkPieces ==
    { <<"a">>, <<"4">>, <<"|">>, <<"\n">>, <<"=", "=">>, Fence,
      <<"[", "[">>, <<"]", "]">>, <<"!", "[", "[">> }

\* image embeds of video and other URLs around code fences
VideoPieces ==
    { <<"a">>, <<"\n">>, Fence,
      WatchEmbed, ShortEmbed, DoubleSchemeEmbed, OtherEmbed }

TextsOf(pieces) ==
    { Flatten(ps) : ps \in UNION { [1..n -> pieces] : n \in 0..MaxPieces } }

Texts == TextsOf(LinkPieces) \cup TextsOf(VideoPieces)

----------------------------------------------------------------------------
(* The rewriter as a program: one call of modify_content_with_regex with   *)
(* youtube_placeholders = {}                                               *)

IdleRewriter ==
    /\ content = <<>>
    /\ stages = <<>>
    /\ modified_content = <<>>
    /\ youtube_placeholders = <<>>

IdleResolver ==
    /\ url = <<>>
    /\ embed_code = None

IdlePost ==
    /\ rendered = <<>>
    /\ output_html = <<>>

IdleDriver ==
    /\ exclude_frontmatter_properties = {}
    /\ excluded_folders = {}
    /\ excluded_dirs = {}
    /\ platform = "Linux"
    /\ vault = <<>>
    /\ files_to_process = <<>>
    /\ cursor = 0
    /\ errors = <<>>
    /\ journal = <<>>
    /\ rewrites = <<>>

InitRewrite ==
    /\ IdleResolver
    /\ IdlePost
    /\ IdleDriver
    /\ content \in Texts
    /\ stages = <<>>
    /\ modified_content = <<>>
    /\ youtube_placeholders = <<>>
    /\ pc = "call"

Rewrite ==
    /\ pc = "call"
    /\ LET st == RewriteStages(content)
       IN  /\ stages' = st
           /\ modified_content' = JoinParts(st)
           /\ youtube_placeholders' = DictPutAll(youtube_placeholders, RecordedRefs(st))
    /\ pc' = "returned"
    /\ UNCHANGED <<content, resolverVars, postVars, configVars, runVars>>

NextRewrite == Rewrite

SpecRewrite == InitRewrite /\ [][NextRewrite]_vars

----------------------------------------------------------------------------
(* The resolver as a program: one call of get_youtube_embed_code *)

InitResolve ==
    /\ IdleRewriter
    /\ IdlePost
    /\ IdleDriver
    /\ url \in Urls
    /\ embed_code = None
    /\ pc = "resolve"

Resolve ==
    /\ pc = "resolve"
    /\ embed_code' = get_youtube_embed_code(url)
    /\ pc' = "resolved"
    /\ UNCHANGED <<url, rewriteVars, postVars, configVars, runVars>>

NextResolve == Resolve

SpecResolve == InitResolve /\ [][NextResolve]_vars

----------------------------------------------------------------------------
(* Post-processing as a program: the step of modify_and_convert_file that  *)
(* follows a successful rendering, on a reference table and the file the   *)
(* renderer wrote                                                          *)

InitPost ==
    /\ IdleResolver
    /\ IdleDriver
    /\ content = <<>>
    /\ stages = <<>>
    /\ modified_content = <<>>
    /\ youtube_placeholders \in Tables
    /\ rendered \in HtmlsOf(youtube_placeholders)
    /\ output_html = rendered
    /\ pc = "post"

PostProcess ==
    /\ pc = "post"
    /\ output_html' = PostProcessed(output_html, youtube_placeholders)
    /\ pc' = "posted"
    /\ UNCHANGED <<rewriteVars, resolverVars, rendered, configVars, runVars>>

NextPost == PostProcess

SpecPost == InitPost /\ [][NextPost]_vars

----------------------------------------------------------------------------
(* The run: process_directory on a vault of up to MaxDocs files *)

Folders == { <<>>, <<"notes">>, <<"_templates", "notes">> }

ExcludedDocument == <<"---", "\n", "private", ":", "true", "\n", "---", "\n", "a">>

Contents == { <<"a">>, WatchEmbed, ExcludedDocument }

VaultFiles ==
    { [dir |-> d, md |-> TRUE, content |-> c] : d \in Folders, c \in Contents }
    \cup { [dir |-> <<>>, md |-> FALSE, content |-> <<"a">>] }

Vaults == UNION { [1..n -> VaultFiles] : n \in 0..MaxDocs }

ExcludedFolderSets == { {}, {"notes"} }

Platforms == {"Darwin", "Windows", "Linux"}

Init ==
    /\ IdleRewriter
    /\ IdleResolver
    /\ IdlePost
    /\ exclude_frontmatter_properties \in PropertySets
    /\ excluded_folders \in ExcludedFolderSets
    /\ excluded_dirs = excluded_folders
    /\ platform \in Platforms
    /\ vault \in Vaults
    /\ files_to_process = <<>>
    /\ cursor = 0
    /\ errors = <<>>
    /\ journal = <<>>
    /\ rewrites = <<>>
    /\ pc = "scan"

\* process_directory up to its loop over files_to_process
Scan ==
    /\ pc = "scan"
    /\ excluded_dirs' = IF excluded_dirs = {} THEN DefaultExcludedFolders ELSE excluded_dirs
    /\ files_to_process' = CollectFrom(vault, 1, excluded_dirs')
    /\ pc' = IF files_to_process' = <<>> THEN "done" ELSE "loop"
    /\ UNCHANGED <<rewriteVars, resolverVars, postVars, cursor, errors, journal, rewrites,
                   exclude_frontmatter_properties, excluded_folders, platform, vault>>

\* modify_and_convert_file returned: the loop goes on or ends
Returns ==
    /\ cursor' = cursor + 1
    /\ pc' = IF cursor + 1 = Len(files_to_process) THEN "done" ELSE "loop"

\* one iteration of the loop: modify_and_convert_file on the next document
Convert ==
    /\ pc = "loop"
    /\ LET d == files_to_process[cursor + 1]
       IN  /\ content' = vault[d].content
           /\ IF should_exclude_file(vault[d].content, exclude_frontmatter_properties)
              THEN /\ youtube_placeholders' = <<>>
                   /\ journal' = Append(journal, Entry(d, TRUE, "none", FALSE, FALSE, "none"))
                   /\ Returns
                   /\ UNCHANGED <<stages, modified_content, postVars, errors, rewrites>>
              ELSE /\ stages' = RewriteStages(vault[d].content)
                   /\ modified_content' = JoinParts(stages')
                   /\ youtube_placeholders' = DictPutAll(<<>>, RecordedRefs(stages'))
                   /\ rewrites' = Append(rewrites,
                                         [file |-> d, text |-> modified_content',
                                          refs |-> youtube_placeholders'])
                   /\ \E outcome \in RendererOutcomes :
                         /\ errors' = IF outcome = "ok" THEN errors
                                      ELSE Append(errors, [file |-> d, error |-> outcome])
                         /\ rendered' = IF outcome = "ok"
                                        THEN PandocHtml(modified_content', 1,
                                                        youtube_placeholders')
                                        ELSE <<>>
                         /\ IF ExitsRun(outcome)
                            THEN /\ journal' = Append(journal,
                                         Entry(d, FALSE, outcome, FALSE, FALSE, "none"))
                                 /\ output_html' = <<>>
                                 /\ pc' = "exit"
                                 /\ UNCHANGED cursor
                            ELSE \E ts \in TimestampOutcomes(platform, outcome = "ok") :
                                 /\ output_html' = PostProcessed(rendered', youtube_placeholders')
                                 /\ journal' = Append(journal,
                                         Entry(d, FALSE, outcome, outcome = "ok",
                                               /\ outcome = "ok"
                                               /\ youtube_placeholders' # <<>>
                                               /\ SubstituteFrom(rendered',
                                                                 youtube_placeholders', 1).ok,
                                               ts))
                                 /\ IF TimestampRaises(ts)
                                    THEN pc' = "crash" /\ UNCHANGED cursor
                                    ELSE Returns
    /\ UNCHANGED <<resolverVars, configVars, files_to_process>>

Next == Scan \/ Convert

Spec == Init /\ [][Next]_vars

----------------------------------------------------------------------------
(* One call of modify_and_convert_file, on a document with front-matter:   *)
(* the state is the one process_directory is in after collecting a vault   *)
(* that holds the document alone                                           *)

InitConvert ==
    /\ IdleRewriter
    /\ IdleResolver
    /\ IdlePost
    /\ exclude_frontmatter_properties \in PropertySets
    /\ excluded_folders = DefaultExcludedFolders
    /\ excluded_dirs = DefaultExcludedFolders
    /\ platform \in Platforms
    /\ vault \in { << [dir |-> <<>>, md |-> TRUE, content |-> c] >> : c \in FrontDocs }
    /\ files_to_process = << 1 >>
    /\ cursor = 0
    /\ errors = <<>>
    /\ journal = <<>>
    /\ rewrites = <<>>
    /\ pc = "loop"

NextConvert == Convert

SpecConvert == InitConvert /\ [][NextConvert]_vars

----------------------------------------------------------------------------
(* Vocabulary of the properties, stated apart from the scanners above *)


Returned == pc = "returned"

\* the parts the loop rewrites: the Prose segments, i.e. the segments that
\* do not begin with a code fence
ProseParts == { i \in 1..Len(stages) : stages[i].rewritten }

\* the first fence at or after p, 0 when there is none
FirstFence(t, p) ==
    LET S == { q \in p..(Len(t) - 2) :
                 t[q] = Backtick /\ t[q + 1] = Backtick /\ t[q + 2] = Backtick }
    IN  IF S = {} THEN 0 ELSE Min(S)

\* the fenced code blocks of t from p on: each opening fence paired with the
\* next fence after it
RECURSIVE FencedBlocks(_, _)
FencedBlocks(t, p) ==
    LET o == FirstFence(t, p)
        c == IF o = 0 THEN 0 ELSE FirstFence(t, o + 3)
    IN  IF c = 0 THEN <<>>
        ELSE << SubSeq(t, o, c + 2) >> \o FencedBlocks(t, c + 3)

\* the blocks occur in text from p on, in this order, without overlap
RECURSIVE OccurInOrder(_, _, _)
OccurInOrder(blocks, text, p) ==
    IF blocks = <<>> THEN TRUE
    ELSE LET S == { q \in p..Len(text) : IsAt(text, q, Head(blocks)) }
         IN  /\ S # {}
             /\ OccurInOrder(Tail(blocks), text, Min(S) + Len(Head(blocks)))

\* the closing pair of the single-line span that opens at p with `open`,
\* 0 when no span opens at p
SpanClose(t, p, open) ==
    LET b == p + Len(open)
        C == { q \in b..(Len(t) - 1) :
                 /\ t[q] = "]" /\ t[q + 1] = "]"
                 /\ \A k \in b..(q - 1) : t[k] # "\n" }
    IN  IF IsAt(t, p, open) /\ C # {} THEN Min(C) ELSE 0

HasSpan(t, open) == \E p \in 1..Len(t) : SpanClose(t, p, open) # 0

\* a highlight ==..== on one line opens at p
HighlightAt(t, p) ==
    /\ IsAt(t, p, <<"=", "=">>)
    /\ \E q \in (p + 2)..(Len(t) - 1) :
          /\ t[q] = "=" /\ t[q + 1] = "="
          /\ \A k \in (p + 2)..(q - 1) : t[k] # "\n"

\* an embed ![alt](url) opens at p whose url is a watch URL (short = FALSE)
\* or a short URL (short = TRUE)
VideoEmbedAt(t, p, short) ==
    LET prefix == IF short THEN <<"youtu.be", "/">>
                  ELSE <<"www.youtube.com", "/watch", "?", "v", "=">>
    IN  /\ IsAt(t, p, <<"!", "[">>)
        /\ \E a \in (p + 2)..Len(t) :
              /\ t[a] = "]"
              /\ \A k \in (p + 2)..(a - 1) : t[k] # "]"
              /\ IsAt(t, a + 1, <<"(">>)
              /\ a + 2 <= Len(t) /\ t[a + 2] \in {"http://", "https://"}
              /\ IsAt(t, a + 3, prefix)
              /\ \E e \in (a + 4 + Len(prefix))..Len(t) :
                    /\ t[e] = ")"
                    /\ \A k \in (a + 3 + Len(prefix))..(e - 1) : t[k] # ")"

HasVideoEmbed(t) ==
    \E p \in 1..Len(t) : VideoEmbedAt(t, p, FALSE) \/ VideoEmbedAt(t, p, TRUE)

\* some rewrite pattern has a match in t
HasMarkup(t) ==
    \/ HasSpan(t, <<"[", "[">>)
    \/ \E p \in 1..Len(t) : HighlightAt(t, p)
    \/ HasVideoEmbed(t)

----------------------------------------------------------------------------
(* C1: every fenced code block of the input is in the output of            *)
(* modify_content_with_regex unchanged and in the same order: the parts    *)
(* of the output are prose, block 1, prose, block 2, ..., whatever the     *)
(* blocks contain.                                                         *)

ThmC1_CodeBlocksVerbatim ==
    Returned =>
        LET B == FencedBlocks(content, 1)
        IN  /\ Len(stages) = 2 * Len(B) + 1
            /\ \A k \in 1..Len(B) : stages[2 * k].out = B[k]
            /\ modified_content = Flatten([i \in 1..Len(stages) |-> stages[i].out])
            /\ OccurInOrder(B, modified_content, 1)

\* a code block that holds rewritable markup, in a text that was rewritten
WitC1_MarkupInCodeBlock ==
    /\ Returned
    /\ modified_content # content
    /\ \E k \in 1..Len(FencedBlocks(content, 1)) :
          HasMarkup(FencedBlocks(content, 1)[k])

----------------------------------------------------------------------------
(* C2: in one call that starts with an empty table, the k-th video match   *)
(* of the document, counted across the Prose segments, gets placeholder    *)
(* number k-1; the table holds one reference per match, in match order;    *)
(* and each match was replaced by the link [placeholder](url): putting     *)
(* ![alt](url) back for every recorded link gives the segment's source.    *)

\* t with ![alt](url) put back for the links of refs, in order; an atom
\* "UNUSED" marks a reference whose link is not in t
RECURSIVE RestoreEmbeds(_, _, _)
RestoreEmbeds(t, p, refs) ==
    IF p > Len(t) THEN (IF refs = <<>> THEN <<>> ELSE <<"UNUSED">>)
    ELSE IF /\ refs # <<>>
            /\ IsAt(t, p, <<"[", Head(refs).placeholder, "]", "(">>
                          \o Head(refs).url \o <<")">>)
         THEN <<"!", "[">> \o Head(refs).alt \o <<"]", "(">> \o Head(refs).url
              \o <<")">>
              \o RestoreEmbeds(t, p + 5 + Len(Head(refs).url), Tail(refs))
         ELSE << t[p] >> \o RestoreEmbeds(t, p + 1, refs)

ThmC2_PlaceholderNumbering ==
    Returned =>
        /\ \A k \in 1..Len(youtube_placeholders) :
              youtube_placeholders[k].placeholder
                  = "YOUTUBEPLACEHOLDER_" \o ToString(k - 1)
        /\ youtube_placeholders = Flatten([i \in 1..Len(stages) |-> stages[i].refs])
        /\ \A i \in ProseParts :
              RestoreEmbeds(stages[i].yt, 1, stages[i].refs) = stages[i].src

\* video matches in two Prose segments with a code block between them
WitC2_MatchesInTwoSegments ==
    /\ Returned
    /\ Len(youtube_placeholders) >= 2
    /\ \E i, j \in ProseParts : i < j /\ stages[i].refs # <<>> /\ stages[j].refs # <<>>

----------------------------------------------------------------------------
(* C4: with an odd number of fences the text after the last, unmatched     *)
(* fence is prose wherever that fence is: when it holds markup a rule      *)
(* matches, the last part of the document comes out rewritten.             *)

LastPart == stages[Len(stages)]

CexC4_UnmatchedFenceTailIsProse ==
    Returned =>
        LET f == FirstFence(LastPart.src, 1)
        IN  (f # 0 /\ HasMarkup(From(LastPart.src, f + 3)))
                => LastPart.out # LastPart.src

----------------------------------------------------------------------------
(* C5: in a Prose segment an embed ![alt](url) is extracted (a reference   *)
(* is recorded) when url is a watch URL or a short URL, and only then.     *)

CexC5_BothHostShapes ==
    Returned =>
        \A i \in ProseParts :
            HasVideoEmbed(stages[i].src) <=> stages[i].refs # <<>>

----------------------------------------------------------------------------
(* C6 and C7: what rule 2 (media) and rule 3 (wiki) make of the text they  *)
(* receive.  Expected(t, p, kind) rewrites every single-line span of t     *)
(* from p on, leftmost first, as the statement of kind describes it.       *)

\* [[target|Title]] -> [Title](target.html), [[target]] -> [target](target.html),
\* the target being the part of inner before the first pipe
LinkAtFirstPipe(inner) ==
    LET P == { k \in 1..Len(inner) : inner[k] = "|" }
    IN  IF P = {} THEN <<"[">> \o inner \o <<"]", "(">> \o inner \o <<".html", ")">>
        ELSE <<"[">> \o From(inner, Min(P) + 1) \o <<"]", "(">>
             \o SubSeq(inner, 1, Min(P) - 1) \o <<".html", ")">>

\* the same, a title being one or more characters after the pipe: an inner
\* with no pipe or with only a trailing pipe is kept whole
LinkAtTitlePipe(inner) ==
    LET P == { k \in 1..(Len(inner) - 1) : inner[k] = "|" }
    IN  IF P = {} THEN <<"[">> \o inner \o <<"]", "(">> \o inner \o <<".html", ")">>
        ELSE <<"[">> \o From(inner, Min(P) + 1) \o <<"]", "(">>
             \o SubSeq(inner, 1, Min(P) - 1) \o <<".html", ")">>

\* inner ending in |digits -> ![](path){ width=digits px }, else ![](inner)
ImageWithWidth(inner) ==
    LET P == { k \in 1..(Len(inner) - 1) :
                 /\ inner[k] = "|"
                 /\ \A j \in (k + 1)..Len(inner) :
                       inner[j] \in {"0", "1", "2", "3", "4", "5", "6", "7", "8", "9"} }
    IN  IF P = {} THEN <<"!", "[", "]", "(">> \o inner \o <<")">>
        ELSE <<"!", "[", "]", "(">> \o SubSeq(inner, 1, Min(P) - 1)
             \o <<")", "{ width=">> \o From(inner, Min(P) + 1) \o <<"px }">>

OpenOf(kind) == IF kind = "media" THEN <<"!", "[", "[">> ELSE <<"[", "[">>

RECURSIVE Expected(_, _, _)
Expected(t, p, kind) ==
    IF p > Len(t) THEN <<>>
    ELSE LET q == SpanClose(t, p, OpenOf(kind))
             inner == SubSeq(t, p + Len(OpenOf(kind)), q - 1)
         IN  IF q = 0 THEN << t[p] >> \o Expected(t, p + 1, kind)
             ELSE (CASE kind = "media" -> ImageWithWidth(inner)
                     [] kind = "wiki" -> LinkAtTitlePipe(inner)
                     [] kind = "wiki at first pipe" -> LinkAtFirstPipe(inner))
                  \o Expected(t, q + 2, kind)

\* the positions of t where a double-bracket span opens right after a "!"
BangSpans(t) ==
    { p \in 2..Len(t) : t[p - 1] = "!" /\ SpanClose(t, p, <<"[", "[">>) # 0 }

\* no ![[inner]] span of t holds a [[ in its inner
NoNestedBrackets(t) ==
    \A p \in 1..Len(t) :
        LET q == SpanClose(t, p, <<"!", "[", "[">>)
        IN  q # 0 => \A k \in (p + 3)..(q - 2) : ~IsAt(t, k, <<"[", "[">>)

----------------------------------------------------------------------------
(* C8: get_youtube_embed_code returns embed markup exactly for a URL on    *)
(* the video host that carries a non-blank v parameter in its query and    *)
(* for a URL on the short host whose path is not empty; for every other    *)
(* URL (another host among them) it returns None.                          *)

\* the host of a URL: the one atom between the scheme and the path or query
HostOf(u) ==
    IF /\ Len(u) >= 2
       /\ u[1] \in {"http://", "https://"}
       /\ (Len(u) = 2 \/ u[3] \in {"/", "/watch", "?"})
    THEN u[2] ELSE ""

\* the query of u holds a field v=value with a value that is not blank
CarriesV(u) ==
    \E q \in 1..Len(u) :
        /\ u[q] = "?"
        /\ \A k \in 1..(q - 1) : u[k] # "?"
        /\ \E i \in (q + 1)..(Len(u) - 2) :
              /\ i - 1 = q \/ u[i - 1] = "&"
              /\ u[i] = "v" /\ u[i + 1] = "=" /\ u[i + 2] # "&"

\* the path of u holds more than slashes
PathHoldsId(u) ==
    \E i \in 3..Len(u) :
        /\ u[i] \notin {"/", "?"}
        /\ \A k \in 3..i : u[k] # "?"

IsRecognizedShape(u) ==
    \/ HostOf(u) = "www.youtube.com" /\ CarriesV(u)
    \/ HostOf(u) = "youtu.be" /\ PathHoldsId(u)

CexC8_ExactlyTwoShapes ==
    pc = "resolved" =>
        /\ embed_code # None <=> IsRecognizedShape(url)
        /\ embed_code # None =>
              /\ Len(embed_code) >= 3
              /\ embed_code[1] =
                   "<iframe width=\"560\" height=\"315\" src=\"https://www.youtube.com/embed/"
              /\ embed_code[Len(embed_code)] =
                   "\" frameborder=\"0\" allowfullscreen></iframe>"

----------------------------------------------------------------------------
(* C9: after post-processing, the output file is the rendered HTML in      *)
(* which every anchor that holds the URL and the placeholder of a          *)
(* reference whose URL resolves to embed markup is replaced by that        *)
(* markup, and nothing else is changed: anchors of references that do not  *)
(* resolve, anchors of no reference and all other text stay as rendered.   *)

\* the reference of table whose anchor opens at p and whose URL resolves;
\* 0 when there is none (placeholders are keys, so there is at most one)
ResolvedAnchorAt(t, p, table) ==
    LET hits == { i \in 1..Len(table) :
                    /\ AnchorEnd(t, p, table[i].url, table[i].placeholder) # 0
                    /\ get_youtube_embed_code(table[i].url) # None }
    IN  IF hits = {} THEN 0 ELSE Min(hits)

RECURSIVE EmbedsInPlace(_, _, _)
EmbedsInPlace(t, p, table) ==
    IF p > Len(t) THEN <<>>
    ELSE LET i == ResolvedAnchorAt(t, p, table)
         IN  IF i # 0
             THEN get_youtube_embed_code(table[i].url)
                  \o EmbedsInPlace(t, AnchorEnd(t, p, table[i].url,
                                                table[i].placeholder) + 1, table)
             ELSE << t[p] >> \o EmbedsInPlace(t, p + 1, table)

CexC9_AnchorsOfResolvedReferences ==
    pc = "posted" => output_html = EmbedsInPlace(rendered, 1, youtube_placeholders)

----------------------------------------------------------------------------
(* C10: a document is skipped (not rewritten, not rendered, no output, no  *)
(* post-processing) exactly when it starts with a front-matter block       *)
(* delimited by lines of three dashes in which a line sets a configured    *)
(* key to a truthy value; every other document is rewritten and handed to  *)
(* the renderer.                                                           *)

\* the lines of t: the runs of atoms between newlines
RECURSIVE LinesOf(_)
LinesOf(t) ==
    LET n == IndexOf(t, "\n", 1)
    IN  IF n = 0 THEN << t >>
        ELSE << SubSeq(t, 1, n - 1) >> \o LinesOf(From(t, n + 1))

Strip(line) == SelectSeq(line, LAMBDA a : a # " ")

IsDelimiterLine(line) == Strip(line) = <<"---">>

\* the line sets one of the keys to a truthy value
SetsTruthy(line, keys) ==
    LET l == Strip(line)
    IN  Len(l) = 3 /\ l[1] \in keys /\ l[2] = ":" /\ IsTruthy(l[3])

FrontMatterExcludes(t, keys) ==
    LET ls == LinesOf(t)
        closings == { j \in 2..Len(ls) : IsDelimiterLine(ls[j]) }
    IN  /\ IsDelimiterLine(ls[1])
        /\ closings # {}
        /\ \E k \in 2..(Min(closings) - 1) : SetsTruthy(ls[k], keys)

CexC10_SkippedExactlyWhenKeyTruthy ==
    \A k \in 1..Len(journal) :
        LET e == journal[k]
        IN  /\ e.skipped <=> FrontMatterExcludes(vault[e.file].content,
                                                 exclude_frontmatter_properties)
            /\ e.skipped =>
                  ~e.rewritten /\ e.renderer = "none" /\ ~e.written /\ ~e.posted
            /\ ~e.skipped => e.rewritten /\ e.renderer # "none"

----------------------------------------------------------------------------
(* C3 as stated: whenever the renderer invocation for a document failed    *)
(* (renderer missing or non-zero exit), the failure is in the error log,   *)
(* the run has not been ended by it, and a run that ended has handled      *)
(* every collected document.                                               *)

RendererFailed(e) == e.renderer \in {"nonzero", "missing"}

Logged(e) == \E i \in 1..Len(errors) : errors[i].file = e.file /\ errors[i].error = e.renderer

CexC3_RendererFailureNeverEndsRun ==
    \A k \in 1..Len(journal) :
        RendererFailed(journal[k]) =>
            /\ Logged(journal[k])
            /\ pc # "exit"
            /\ pc = "done" => Len(journal) = Len(files_to_process)

(* C3: every failed renderer invocation is in the error log.  A non-zero   *)
(* exit does not end the run: once modify_and_convert_file has returned,   *)
(* the loop goes on with the next collected document, and it ends only     *)
(* after the last one.  A missing renderer ends the run with sys.exit(1)   *)
(* right after the log entry: no later document is handled.                *)
ThmC3_NonZeroContinuesMissingExits ==
    /\ \A k \in 1..Len(journal) :
          /\ journal[k].file = files_to_process[k]
          /\ RendererFailed(journal[k]) => Logged(journal[k])
          /\ k < Len(journal) =>
                journal[k].renderer # "missing" /\ ~TimestampRaises(journal[k].timestamp)
    /\ pc = "exit" <=> (journal # <<>> /\ journal[Len(journal)].renderer = "missing")
    /\ pc = "crash" <=> (journal # <<>> /\ TimestampRaises(journal[Len(journal)].timestamp))
    /\ pc = "loop" => cursor = Len(journal) /\ cursor < Len(files_to_process)
    /\ pc = "done" => cursor = Len(journal) /\ cursor = Len(files_to_process)

\* a document whose rendering exited non-zero was followed by the next
\* document, whose renderer was missing, and the run ended there
WitC3_ContinuedThenExited ==
    /\ pc = "exit"
    /\ Len(journal) = 2
    /\ journal[1].renderer = "nonzero"
    /\ journal[2].renderer = "missing"
    /\ Len(errors) = 2

----------------------------------------------------------------------------
(* C11: the rewriter keeps nothing from one call to the next.  In a run    *)
(* every call numbers its references from YOUTUBEPLACEHOLDER_0 on, and any *)
(* two calls on documents with the same text returned the same text and    *)
(* the same reference sequence, whatever was rewritten in between.         *)

NumberedFromZero(refs) ==
    \A i \in 1..Len(refs) : refs[i].placeholder = Placeholder(i - 1)

ThmC11_NoStateAcrossCalls ==
    \A k \in 1..Len(rewrites) :
        /\ NumberedFromZero(rewrites[k].refs)
        /\ \A l \in 1..Len(rewrites) :
              vault[rewrites[k].file].content = vault[rewrites[l].file].content =>
                  /\ rewrites[k].text = rewrites[l].text
                  /\ rewrites[k].refs = rewrites[l].refs

\* two documents with the same text, each holding a video embed, have both
\* been rewritten, the second after the first had recorded its reference
WitC11_SameTextTwice ==
    /\ Len(rewrites) = 2
    /\ rewrites[1].file # rewrites[2].file
    /\ vault[rewrites[1].file].content = vault[rewrites[2].file].content
    /\ rewrites[1].refs # <<>>
    /\ rewrites[2].refs # <<>>

----------------------------------------------------------------------------
(* C12: a text that holds no code fence, no [[ (so no ![[ either), no ==   *)
(* and no embed of a watch URL or a short URL is returned by               *)
(* modify_content_with_regex unchanged, and no reference is recorded.      *)

IsPlainProse(t) ==
    /\ \A p \in 1..Len(t) :
          /\ ~FenceAt(t, p)
          /\ ~IsAt(t, p, <<"[", "[">>)
          /\ ~IsAt(t, p, <<"=", "=">>)
    /\ ~HasVideoEmbed(t)

CexC12_IdentityOnPlainProse ==
    (Returned /\ IsPlainProse(content)) =>
        modified_content = content /\ youtube_placeholders = <<>>

----------------------------------------------------------------------------
(* C13: the documents modify_and_convert_file is called on are .md files   *)
(* of the vault that lie below no folder named in the configured           *)
(* excluded-folder set, none is handled twice, and a run that has gone     *)
(* through its list has handled every such file, also when the configured  *)
(* set is empty.                                                           *)

BelowConfiguredExcluded(file) ==
    \E k \in 1..Len(file.dir) : file.dir[k] \in excluded_folders

DocumentsToProcess ==
    { i \in 1..Len(vault) : vault[i].md /\ ~BelowConfiguredExcluded(vault[i]) }

CexC13_ExactlyTheDocumentsNotExcluded ==
    /\ \A k \in 1..Len(journal) : journal[k].file \in DocumentsToProcess
    /\ \A k, l \in 1..Len(journal) : journal[k].file = journal[l].file => k = l
    /\ pc = "done" =>
          \A i \in DocumentsToProcess : \E k \in 1..Len(journal) : journal[k].file = i

====
